---- MODULE Spec2Model ----
(***************************************************************************)
(* Model of the customer-data cleansing scripts:                           *)
(*   append_batch.py     the incremental run main(): ledger, filter, clean,*)
(*                       merge, save, ledger update                        *)
(*   merge_practice1.py  the same normalizers and the same merge           *)
(*                                                                         *)
(* Strings are sequences of characters.  A character is a TLA+ string that *)
(* names one code point:                                                   *)
(*   " "        U+0020 SPACE                                               *)
(*   "IDSP"     U+3000 IDEOGRAPHIC SPACE (whitespace, NFKC -> U+0020)      *)
(*   "FWMACRON" U+FFE3 FULLWIDTH MACRON  (NFKC -> U+0020 U+0304)           *)
(*   "CMACRON"  U+0304 COMBINING MACRON                                    *)
(*   "FW1"      U+FF11 FULLWIDTH DIGIT ONE (NFKC -> "1")                   *)
(*   "AI1"      U+0661 ARABIC-INDIC DIGIT ONE (category Nd, NFKC keeps it) *)
(*   any other one-character string is that ASCII character.               *)
(* A nullable value is <<>> (None / NaN / <NA>) or <<v>>.                  *)
(***************************************************************************)
EXTENDS Integers, Sequences, FiniteSets, TLC

VARIABLES
    \* ---- files on disk
    addDir,      \* names of the files present in ADD_DIR
    ledger,      \* PROCESSED_LOG: the sequence of lines written so far
    output,      \* OUTPUT_CSV: <<>> while absent, else <<dataset>>
    \* ---- main(): position and locals
    pc, already, add_files, master, add_df, merged, kept, logIdx,
    \* ---- history of the runs (read by the properties only)
    runs, preLedger, preOutput, saved, abortedAt, mergedCount,
    prevOk, arrived, recover, crashOutput, crashFiles, allCompleted,
    \* ---- normalizer harness
    npc, raw, strOut, strAgain, phoneOut

diskVars == <<addDir, ledger, output>>
mainVars == <<pc, already, add_files, master, add_df, merged, kept, logIdx>>
histVars == <<runs, preLedger, preOutput, saved, abortedAt, mergedCount,
              prevOk, arrived, recover, crashOutput, crashFiles, allCompleted>>
normVars == <<npc, raw, strOut, strAgain, phoneOut>>
vars == <<diskVars, mainVars, histVars, normVars>>

None == <<>>
Some(v) == <<v>>
IsNone(o) == o = <<>>
Val(o) == o[1]

\* ------------------------------------------------------------------------
\* Characters
\* ------------------------------------------------------------------------
AsciiDigits == {"0", "1", "2", "3", "4", "5", "6", "7", "8", "9"}

\* str.isspace(), which str.strip() uses
IsSpace(c) == c \in {" ", "IDSP"}

\* re's \d on a str pattern: every Unicode decimal digit (category Nd)
IsDigit(c) == c \in AsciiDigits \cup {"FW1", "AI1"}

\* unicodedata.normalize("NFKC", c) of one code point
NFKC1(c) ==
    CASE c = "IDSP"     -> <<" ">>
      [] c = "FW1"      -> <<"1">>
      [] c = "FWMACRON" -> <<" ", "CMACRON">>
      [] OTHER          -> <<c>>

\* unicodedata.normalize("NFKC", s).  No character of the alphabet composes
\* with a neighbour (U+0304 has no precomposed form after " ", "-", "x" or a
\* digit), so the result is the concatenation of the code points' foldings.
RECURSIVE NFKC(_)
NFKC(s) == IF s = <<>> THEN <<>> ELSE NFKC1(Head(s)) \o NFKC(Tail(s))

RECURSIVE LStrip(_)
LStrip(s) == IF s # <<>> /\ IsSpace(Head(s)) THEN LStrip(Tail(s)) ELSE s

RECURSIVE RStrip(_)
RStrip(s) ==
    IF s # <<>> /\ IsSpace(s[Len(s)]) THEN RStrip(SubSeq(s, 1, Len(s) - 1)) ELSE s

\* str.strip()
Strip(s) == RStrip(LStrip(s))

\* ------------------------------------------------------------------------
\* Normalizers
\* ------------------------------------------------------------------------
normalize_str(s) ==
    IF IsNone(s) THEN None
    ELSE LET t == NFKC(Strip(Val(s))) IN IF t = <<>> THEN None ELSE Some(t)

PhoneLenFixed == 10
PhoneLenMobile == 11

\* re.sub(r"\D", "", p)
RECURSIVE DigitsOf(_)
DigitsOf(s) ==
    IF s = <<>> THEN <<>>
    ELSE IF IsDigit(Head(s)) THEN <<Head(s)>> \o DigitsOf(Tail(s))
    ELSE DigitsOf(Tail(s))

normalize_phone(p) ==
    IF IsNone(p) THEN None
    ELSE LET digits == DigitsOf(Val(p))
         IN IF Len(digits) \in {PhoneLenFixed, PhoneLenMobile}
            THEN Some(digits) ELSE None

\* clean(): df[col].apply(normalize_str) and then df["phone"].apply(normalize_phone)
clean_phone(p) == normalize_phone(normalize_str(p))

\* ------------------------------------------------------------------------
\* Numeric coercion and clean()
\* ------------------------------------------------------------------------
DigitVal(c) ==
    CASE c = "0" -> 0 [] c = "1" -> 1 [] c = "2" -> 2 [] c = "3" -> 3
      [] c = "4" -> 4 [] c = "5" -> 5 [] c = "6" -> 6 [] c = "7" -> 7
      [] c = "8" -> 8 [] c = "9" -> 9

AllAsciiDigits(s) == \A i \in 1..Len(s) : s[i] \in AsciiDigits

RECURSIVE DecimalValue(_)
DecimalValue(s) ==
    IF s = <<>> THEN 0
    ELSE 10 * DecimalValue(SubSeq(s, 1, Len(s) - 1)) + DigitVal(s[Len(s)])

\* pd.to_numeric(x, errors="coerce") of one cell: an integer literal with an
\* optional sign is its value, anything else of the alphabet is <NA>
to_numeric(o) ==
    IF IsNone(o) THEN None
    ELSE LET s == Val(o)
         IN IF s # <<>> /\ AllAsciiDigits(s) THEN Some(DecimalValue(s))
            ELSE IF Len(s) > 1 /\ Head(s) = "-" /\ AllAsciiDigits(Tail(s))
                 THEN Some(0 - DecimalValue(Tail(s)))
            ELSE None

\* .fillna(0)
fillna0(o) == IF IsNone(o) THEN 0 ELSE Val(o)

\* clean() on one row.  The columns name and address go through normalize_str
\* exactly as email does; join_date is read by no step of main().
clean_row(r) ==
    [customer_id |-> to_numeric(normalize_str(r.customer_id)),
     email       |-> normalize_str(r.email),
     points      |-> fillna0(to_numeric(r.points))]

clean(df) == [i \in 1..Len(df) |-> clean_row(df[i])]

\* ------------------------------------------------------------------------
\* Merge and duplicate resolution
\* ------------------------------------------------------------------------
\* mutant of RowBefore: points ascending
RowBefore_points_ascending(a, b) ==
    IF a.customer_id # b.customer_id
    THEN /\ ~IsNone(a.customer_id)
         /\ (IsNone(b.customer_id) \/ Val(a.customer_id) < Val(b.customer_id))
    ELSE a.points < b.points

\* sort_values(["customer_id", "points"], ascending=[True, False]):
\* a sorts strictly before b.  <NA> customer_id sorts last (na_position).
RowBefore(a, b) ==
    IF a.customer_id # b.customer_id
    THEN /\ ~IsNone(a.customer_id)
         /\ (IsNone(b.customer_id) \/ Val(a.customer_id) < Val(b.customer_id))
    ELSE a.points > b.points

\* stable insertion of row index x into the sorted index sequence s
RECURSIVE InsertIdx(_, _, _)
InsertIdx(df, s, x) ==
    IF s = <<>> THEN <<x>>
    ELSE IF RowBefore(df[x], df[Head(s)]) THEN <<x>> \o s
    ELSE <<Head(s)>> \o InsertIdx(df, Tail(s), x)

\* the row indices of df in sort_values order (a multi-key sort is stable)
RECURSIVE SortIdx(_, _)
SortIdx(df, n) == IF n = 0 THEN <<>> ELSE InsertIdx(df, SortIdx(df, n - 1), n)

\* subset=["customer_id", "email"]; <NA> equals <NA> in duplicated()
SameKey(a, b) == a.customer_id = b.customer_id /\ a.email = b.email

\* drop_duplicates(keep="first") over the index sequence s
KeepIdx(df, s) ==
    LET first(i) == \A j \in 1..(i - 1) : ~SameKey(df[s[j]], df[s[i]])
        F[i \in 0..Len(s)] ==
            IF i = 0 THEN <<>>
            ELSE IF first(i) THEN Append(F[i - 1], s[i]) ELSE F[i - 1]
    IN F[Len(s)]

\* concat, sort, drop duplicates: the surviving rows' indices in the concat
MergeIdx(m, a) == LET df == m \o a IN KeepIdx(df, SortIdx(df, Len(df)))

\* .reset_index(drop=True)
MergeRows(m, a) ==
    LET df == m \o a
        k  == MergeIdx(m, a)
    IN [i \in 1..Len(k) |-> df[k[i]]]

\* ------------------------------------------------------------------------
\* Files
\* ------------------------------------------------------------------------
NameA   == <<"a", ".", "c", "s", "v">>
NameSpA == <<" ", "a", ".", "c", "s", "v">>
NameB   == <<"b", ".", "c", "s", "v">>
NameTxt == <<"n", ".", "t", "x", "t">>

\* the files that may arrive in ADD_DIR
Arrivals == {NameA, NameSpA, NameB, NameTxt}

Row(c, e, p) == [customer_id |-> c, email |-> e, points |-> p]

\* customers_merged.csv as read_csv(dtype=str) returns it
MasterRaw ==
    << Row(Some(<<"1">>), Some(<<"x">>), Some(<<"1", "0">>)),
       Row(Some(<<"2">>), Some(<<"y">>), Some(<<"5">>)) >>

\* the content of each arriving file as read_csv(dtype=str) returns it
FileRaw(name) ==
    CASE name = NameA ->
           << Row(Some(<<"1">>), Some(<<"x">>), Some(<<"5", "0">>)),
              Row(Some(<<"3">>), Some(<<"IDSP", "z">>), None) >>
      [] name = NameSpA ->
           << Row(Some(<<"4">>), Some(<<"w">>), Some(<<"7">>)) >>
      [] name = NameB ->
           << Row(Some(<<"FW1">>), Some(<<"x">>), Some(<<"2", "0">>)),
              Row(Some(<<"x">>), None, Some(<<"3">>)) >>
      [] OTHER -> <<>>

\* ADD_DIR.glob("*.csv")
IsCsv(name) ==
    Len(name) >= 4 /\ SubSeq(name, Len(name) - 3, Len(name)) = <<".", "c", "s", "v">>

\* code point order of the characters file names are made of
CharRank(c) ==
    CASE c = " " -> 32 [] c = "." -> 46 [] c = "a" -> 97 [] c = "b" -> 98
      [] c = "c" -> 99 [] c = "n" -> 110 [] c = "s" -> 115 [] c = "t" -> 116
      [] c = "v" -> 118 [] c = "x" -> 120

RECURSIVE NameLess(_, _)
NameLess(a, b) ==
    IF b = <<>> THEN FALSE
    ELSE IF a = <<>> THEN TRUE
    ELSE IF Head(a) # Head(b) THEN CharRank(Head(a)) < CharRank(Head(b))
    ELSE NameLess(Tail(a), Tail(b))

\* sorted(...) of a set of names
RECURSIVE SortedNames(_)
SortedNames(S) ==
    IF S = {} THEN <<>>
    ELSE LET m == CHOOSE x \in S : \A y \in S \ {x} : NameLess(x, y)
         IN <<m>> \o SortedNames(S \ {m})

\* set(x.strip() for x in PROCESSED_LOG.read_text().splitlines()); a missing
\* file is the empty ledger
already_processed(log) == {Strip(log[i]) : i \in 1..Len(log)}

\* [p for p in sorted(ADD_DIR.glob("*.csv")) if p.name not in already]
filter_new(dir, seen) ==
    SelectSeq(SortedNames({n \in dir : IsCsv(n)}), LAMBDA n : n \notin seen)

\* pd.concat([clean(pd.read_csv(p)) for p in add_files])
RECURSIVE ConcatClean(_)
ConcatClean(files) ==
    IF files = <<>> THEN <<>>
    ELSE clean(FileRaw(Head(files))) \o ConcatClean(Tail(files))

\* ------------------------------------------------------------------------
\* Bounds
\* ------------------------------------------------------------------------
MaxRuns   == 3    \* runs of main() in one behaviour
MaxRows   == 3    \* rows of existing and incoming together (SpecMerge)
MaxPoints == 1    \* largest points value (SpecMerge)
MaxBlocks == 3    \* blocks of equal characters in a raw string (SpecNorm)

\* ------------------------------------------------------------------------
\* main() of append_batch.py
\* ------------------------------------------------------------------------
Running == {"read_master", "read_add", "merge", "save", "log"}

NormOff ==
    /\ npc = "off"
    /\ raw = None
    /\ strOut = None
    /\ strAgain = None
    /\ phoneOut = None

MainIdle ==
    /\ already = {}
    /\ add_files = <<>>
    /\ master = <<>>
    /\ add_df = <<>>
    /\ merged = <<>>
    /\ kept = <<>>
    /\ logIdx = 0

HistInit ==
    /\ runs = 0
    /\ preLedger = <<>>
    /\ preOutput = None
    /\ saved = FALSE
    /\ abortedAt = ""
    /\ mergedCount = [n \in Arrivals |-> 0]
    /\ prevOk = FALSE
    /\ arrived = FALSE
    /\ recover = FALSE
    /\ crashOutput = None
    /\ crashFiles = <<>>
    /\ allCompleted = TRUE

DiskInit ==
    /\ addDir = {}
    /\ ledger = <<>>
    /\ output = None

Init ==
    /\ DiskInit
    /\ pc = "idle"
    /\ MainIdle
    /\ HistInit
    /\ NormOff

\* a new source file is put into ADD_DIR
Arrive ==
    /\ \E n \in Arrivals \ addDir : addDir' = addDir \cup {n}
    /\ arrived' = TRUE
    /\ UNCHANGED <<ledger, output, mainVars, normVars>>
    /\ UNCHANGED <<runs, preLedger, preOutput, saved, abortedAt, mergedCount,
                   prevOk, recover, crashOutput, crashFiles, allCompleted>>

\* main(), steps 1 and 2: read the ledger, list and filter the candidates, and
\* return when nothing is new
StartRun ==
    /\ pc \in {"idle", "done", "aborted"}
    /\ runs < MaxRuns
    /\ already' = already_processed(ledger)
    /\ add_files' = filter_new(addDir, already')
    /\ pc' = IF add_files' = <<>> THEN "done" ELSE "read_master"
    /\ master' = <<>>
    /\ add_df' = <<>>
    /\ merged' = <<>>
    /\ kept' = <<>>
    /\ logIdx' = 0
    /\ runs' = runs + 1
    /\ preLedger' = ledger
    /\ preOutput' = output
    /\ saved' = FALSE
    /\ abortedAt' = ""
    /\ prevOk' = (runs >= 1 /\ pc = "done" /\ ~arrived)
    /\ arrived' = FALSE
    /\ recover' = (pc = "aborted" /\ abortedAt = "log"
                    /\ logIdx < Len(add_files) /\ ~arrived)
    /\ crashOutput' = IF recover' THEN output ELSE None
    /\ crashFiles' = IF recover' THEN SubSeq(add_files, logIdx + 1, Len(add_files))
                     ELSE <<>>
    /\ UNCHANGED <<diskVars, mergedCount, allCompleted, normVars>>

Abort(at) ==
    /\ pc' = "aborted"
    /\ abortedAt' = at
    /\ allCompleted' = FALSE
    /\ UNCHANGED <<already, add_files, master, add_df, merged, kept, logIdx>>
    /\ UNCHANGED <<runs, preLedger, preOutput, saved, mergedCount, prevOk,
                   arrived, recover, crashOutput, crashFiles>>
    /\ UNCHANGED normVars

\* step 3: master = clean(pd.read_csv(MASTER_CSV))
ReadMaster ==
    /\ pc = "read_master"
    /\ master' = clean(MasterRaw)
    /\ pc' = "read_add"
    /\ UNCHANGED <<diskVars, already, add_files, add_df, merged, kept, logIdx>>
    /\ UNCHANGED <<histVars, normVars>>

\* read_csv(MASTER_CSV) raises
ReadMasterFail ==
    /\ pc = "read_master"
    /\ Abort("read_master")
    /\ UNCHANGED diskVars

\* step 3: add_df = concat of the cleaned new files
ReadAdd ==
    /\ pc = "read_add"
    /\ add_df' = ConcatClean(add_files)
    /\ pc' = "merge"
    /\ UNCHANGED <<diskVars, already, add_files, master, merged, kept, logIdx>>
    /\ UNCHANGED <<histVars, normVars>>

\* mutant of ReadAddFail: the output file is opened for writing (and so
\* truncated) before the new files are read
ReadAddFail_truncates ==
    /\ pc = "read_add"
    /\ Abort("read_add")
    /\ output' = Some(<<>>)
    /\ UNCHANGED <<addDir, ledger>>

\* read_csv of a new file raises
ReadAddFail ==
    /\ pc = "read_add"
    /\ Abort("read_add")
    /\ UNCHANGED diskVars

\* step 4: concat, sort_values, drop_duplicates, reset_index
Merge ==
    /\ pc = "merge"
    /\ kept' = MergeIdx(master, add_df)
    /\ merged' = MergeRows(master, add_df)
    /\ pc' = "save"
    /\ mergedCount' = [n \in Arrivals |->
                         IF \E i \in 1..Len(add_files) : add_files[i] = n
                         THEN mergedCount[n] + 1 ELSE mergedCount[n]]
    /\ UNCHANGED <<diskVars, already, add_files, master, add_df, logIdx>>
    /\ UNCHANGED <<runs, preLedger, preOutput, saved, abortedAt, prevOk,
                   arrived, recover, crashOutput, crashFiles, allCompleted>>
    /\ UNCHANGED normVars

\* step 5: merged.to_csv(OUTPUT_CSV)
Save ==
    /\ pc = "save"
    /\ output' = Some(merged)
    /\ saved' = TRUE
    /\ pc' = "log"
    /\ UNCHANGED <<addDir, ledger, already, add_files, master, add_df, merged,
                   kept, logIdx>>
    /\ UNCHANGED <<runs, preLedger, preOutput, abortedAt, mergedCount, prevOk,
                   arrived, recover, crashOutput, crashFiles, allCompleted>>
    /\ UNCHANGED normVars

\* to_csv raises: the file is untouched or holds the rows written so far
SaveFail ==
    /\ pc = "save"
    /\ \/ output' = output
       \/ \E k \in 0..(Len(merged) - 1) : output' = Some(SubSeq(merged, 1, k))
    /\ Abort("save_fail")
    /\ UNCHANGED <<addDir, ledger>>

\* mutant of LogWrite: the ledger is extended before the output is saved
LogWrite_before_save ==
    /\ pc \in {"save", "log"}
    /\ logIdx < Len(add_files)
    /\ ledger' = Append(ledger, add_files[logIdx + 1])
    /\ logIdx' = logIdx + 1
    /\ UNCHANGED <<addDir, output, pc, already, add_files, master, add_df,
                   merged, kept>>
    /\ UNCHANGED <<histVars, normVars>>

\* step 6: log.write(p.name + "\n") for the next file of add_files
LogWrite ==
    /\ pc = "log"
    /\ logIdx < Len(add_files)
    /\ ledger' = Append(ledger, add_files[logIdx + 1])
    /\ logIdx' = logIdx + 1
    /\ UNCHANGED <<addDir, output, pc, already, add_files, master, add_df,
                   merged, kept>>
    /\ UNCHANGED <<histVars, normVars>>

\* the with block ends and main() returns
Finish ==
    /\ pc = "log"
    /\ logIdx = Len(add_files)
    /\ pc' = "done"
    /\ UNCHANGED <<diskVars, already, add_files, master, add_df, merged, kept,
                   logIdx>>
    /\ UNCHANGED <<histVars, normVars>>

\* the process dies between two steps
Crash ==
    /\ pc \in Running
    /\ Abort(pc)
    /\ UNCHANGED diskVars

Next ==
    \/ Arrive
    \/ StartRun
    \/ ReadMaster
    \/ ReadMasterFail
    \/ ReadAdd
    \/ ReadAddFail
    \/ Merge
    \/ Save
    \/ SaveFail
    \/ LogWrite
    \/ Finish
    \/ Crash

Spec == Init /\ [][Next]_vars

\* ------------------------------------------------------------------------
\* Properties of the incremental run (Spec)
\* ------------------------------------------------------------------------
Range(f) == {f[i] : i \in 1..Len(f)}
KeysOf(df) == {<<df[i].customer_id, df[i].email>> : i \in 1..Len(df)}
SourceKeys(n) == KeysOf(clean(FileRaw(n)))
OutputKeys == IF IsNone(output) THEN {} ELSE KeysOf(Val(output))
OutputRows(o) == IF IsNone(o) THEN {} ELSE Range(Val(o))

\* C1: whenever the ledger holds a line added by the current run, that run has
\* already saved its merged output, and the output holds a record for every
\* key of the source the line names -- in every state, aborted runs included.
C1_LedgerOnlyAfterSave ==
    Len(ledger) > Len(preLedger) =>
        /\ saved
        /\ output = Some(merged)
        /\ \A i \in (Len(preLedger) + 1)..Len(ledger) :
               SourceKeys(ledger[i]) \subseteq OutputKeys

\* a run that died while writing the ledger, after at least one line
C1_Witness ==
    /\ pc = "aborted"
    /\ abortedAt = "log"
    /\ Len(ledger) > Len(preLedger)
    /\ logIdx < Len(add_files)

\* C2 (as claimed): after successful runs only, every record of every ledgered
\* source has its key in the dataset the next run loads as existing or in the
\* last saved output.
C2_LedgeredSourcesMerged ==
    (allCompleted /\ pc = "done") =>
        \A i \in 1..Len(ledger) :
            SourceKeys(ledger[i]) \subseteq (KeysOf(clean(MasterRaw)) \cup OutputKeys)

\* C4: a run that aborted before to_csv started (a read failed, or the process
\* died before the save) left the output file and the ledger as they were when
\* the run began.
C4_AbortBeforeSaveTouchesNothing ==
    (pc = "aborted" /\ abortedAt \in {"read_master", "read_add", "merge", "save"}) =>
        /\ output = preOutput
        /\ ledger = preLedger

\* a read of a new file fails in a run that follows a run which saved and logged
C4_Witness ==
    /\ pc = "aborted"
    /\ abortedAt = "read_add"
    /\ ~IsNone(preOutput)
    /\ preLedger # <<>>
    /\ add_files # <<>>

\* C5 (as claimed): when a run has completed, the identifiers the ledger
\* yields are those it yielded before the run together with exactly the
\* sources merged in the run.
C5_LedgerGrowsByMergedSources ==
    pc = "done" =>
        already_processed(ledger) = already_processed(preLedger) \cup Range(add_files)

\* C6 (as claimed): the new-source list holds no identifier of the ledger, is
\* sorted by name, and while every run completes no source is merged twice.
C6_EachSourceMergedOnce ==
    /\ \A i \in 1..Len(add_files) : add_files[i] \notin already_processed(preLedger)
    /\ \A i, j \in 1..Len(add_files) : i < j => NameLess(add_files[i], add_files[j])
    /\ allCompleted => \A n \in Arrivals : mergedCount[n] <= 1

\* C9 (as claimed): the run after a crash between save and the end of the
\* ledger update, with the same files, selects the unledgered sources again,
\* saves the same set of records and ends with those sources written to the
\* ledger.
C9_RerunAfterCrashSameOutput ==
    (recover /\ pc = "done") =>
        /\ Range(crashFiles) \subseteq Range(add_files)
        /\ OutputRows(output) = OutputRows(crashOutput)
        /\ Range(crashFiles) \subseteq Range(ledger)

\* C10 (as claimed): a run with no new candidate reads nothing and writes
\* nothing, and a run right after a successful run with no arrival is one.
C10_NothingNewIsNoOp ==
    /\ (pc = "done" /\ add_files = <<>>) =>
           (output = preOutput /\ ledger = preLedger /\ master = <<>> /\ add_df = <<>>)
    /\ (prevOk /\ pc # "idle") => add_files = <<>>

\* ------------------------------------------------------------------------
\* The merge on arbitrary normalized datasets (SpecMerge)
\* ------------------------------------------------------------------------
CleanRows ==
    [customer_id : {None, Some(1)}, email : {None, Some(<<"x">>)},
     points : 0..MaxPoints]

\* main() stands before step 4 with any two cleaned datasets
InitMerge ==
    /\ DiskInit
    /\ HistInit
    /\ NormOff
    /\ pc = "merge"
    /\ already = {}
    /\ add_files = <<>>
    /\ merged = <<>>
    /\ kept = <<>>
    /\ logIdx = 0
    /\ \E n \in 0..MaxRows :
         \E rows \in [1..n -> CleanRows] :
           \E k \in 0..n :
             /\ master = SubSeq(rows, 1, k)
             /\ add_df = SubSeq(rows, k + 1, n)

NextMerge == Merge

SpecMerge == InitMerge /\ [][NextMerge]_vars

\* C3: after the merge, every key (customer_id, email) of the concatenated
\* input, null components included, has exactly one record in the output; that
\* record has the largest points of the input records with the key, and among
\* those with the largest points it is the first of the concatenation.
C3_MergeKeepsFirstMaxPerKey ==
    pc = "save" =>
        LET df == master \o add_df
            key(r) == <<r.customer_id, r.email>>
        IN /\ Len(merged) = Len(kept)
           /\ \A j \in 1..Len(kept) :
                  /\ kept[j] \in 1..Len(df)
                  /\ merged[j] = df[kept[j]]
                  /\ \A i \in 1..Len(df) :
                         key(df[i]) = key(merged[j]) =>
                             /\ df[i].points <= merged[j].points
                             /\ df[i].points = merged[j].points => kept[j] <= i
           /\ \A i \in 1..Len(df) :
                  Cardinality({j \in 1..Len(merged) : key(merged[j]) = key(df[i])}) = 1

\* three records of one key with a null component: a smaller one, then two
\* that tie on the largest points, one existing and one incoming
C3_Witness ==
    /\ pc = "save"
    /\ LET df == master \o add_df
       IN \E h, i, j \in 1..Len(df) :
            /\ h < i /\ i < j
            /\ i <= Len(master) /\ Len(master) < j
            /\ IsNone(df[i].customer_id)
            /\ df[h].customer_id = df[i].customer_id /\ df[h].email = df[i].email
            /\ df[j].customer_id = df[i].customer_id /\ df[j].email = df[i].email
            /\ df[h].points < df[i].points
            /\ df[i].points = df[j].points
            /\ kept = <<i>>

\* ------------------------------------------------------------------------
\* The normalizers on arbitrary raw cells (SpecNorm)
\* ------------------------------------------------------------------------
NormChars == {" ", "IDSP", "FWMACRON", "CMACRON", "-", "1", "FW1", "AI1"}
BlockLens == {1, 5, 10}

Repeat(c, n) == [i \in 1..n |-> c]

RECURSIVE Expand(_)
Expand(bs) ==
    IF bs = <<>> THEN <<>> ELSE Repeat(Head(bs)[1], Head(bs)[2]) \o Expand(Tail(bs))

\* a raw cell of read_csv(dtype=str): NaN, or a string made of up to MaxBlocks
\* runs of one character
RawCells ==
    {None} \cup
    {Some(Expand(bs)) : bs \in UNION {[1..n -> NormChars \X BlockLens] : n \in 0..MaxBlocks}}

InitNorm ==
    /\ DiskInit
    /\ HistInit
    /\ MainIdle
    /\ pc = "idle"
    /\ npc = "raw"
    /\ raw \in RawCells
    /\ strOut = None
    /\ strAgain = None
    /\ phoneOut = None

\* df[col].apply(normalize_str)
ApplyNormalizeStr ==
    /\ npc = "raw"
    /\ strOut' = normalize_str(raw)
    /\ npc' = "str"
    /\ UNCHANGED <<raw, strAgain, phoneOut, diskVars, mainVars, histVars>>

\* df["phone"].apply(normalize_phone)
ApplyNormalizePhone ==
    /\ npc = "str"
    /\ phoneOut' = normalize_phone(strOut)
    /\ npc' = "phone"
    /\ UNCHANGED <<raw, strOut, strAgain, diskVars, mainVars, histVars>>

\* normalize_str on a value that is already normalized (the next run's clean)
ApplyNormalizeStrAgain ==
    /\ npc = "phone"
    /\ strAgain' = normalize_str(strOut)
    /\ npc' = "again"
    /\ UNCHANGED <<raw, strOut, phoneOut, diskVars, mainVars, histVars>>

NextNorm ==
    \/ ApplyNormalizeStr
    \/ ApplyNormalizePhone
    \/ ApplyNormalizeStrAgain

SpecNorm == InitNorm /\ [][NextNorm]_vars

\* C7 (as claimed): a normalized phone is null or 10 or 11 ASCII digits.
C7_PhoneIsAsciiDigits ==
    npc \in {"phone", "again"} =>
        \/ IsNone(phoneOut)
        \/ /\ Len(Val(phoneOut)) \in {PhoneLenFixed, PhoneLenMobile}
           /\ AllAsciiDigits(Val(phoneOut))

\* C8 (as claimed): normalizing a normalized string changes nothing, and no
\* normalized string is empty.
C8_NormalizeStrIdempotent ==
    npc = "again" =>
        /\ strAgain = strOut
        /\ strOut # Some(<<>>)

====
